---- MODULE Spec2Model ----
(***************************************************************************)
(* Decision engine of praykar/biautomate (src/main.py): the heuristic      *)
(* churn predictor, the threshold rule engine make_churn_decision and the  *)
(* /decide/churn endpoint, with the form of src/ui.py as the client.       *)
(*                                                                         *)
(* Python floats are IEEE-754 binary64 values.  A float is modelled by     *)
(* its sign and its exact magnitude, a natural number counted in units of  *)
(* 2^-FracBits and held as NLimbs limbs of LimbBits bits (least            *)
(* significant first), so that literals, products and sums are rounded     *)
(* exactly as the interpreter rounds them (round to nearest, ties to       *)
(* even, MantBits significant bits).                                       *)
(***************************************************************************)
EXTENDS Integers, Sequences, FiniteSets, TLC

\* ---------------------------------------------------------------- bounds
NumReq == 2         \* request slots served concurrently (SpecConc)
NumCustomers == 2   \* distinct customer identifiers
HMin == 20          \* direct calls take literals from -HMin hundredths ...
HMax == 120         \* ... up to HMax hundredths
MaxUlps == 1        \* ... nudged upwards by 0..MaxUlps units in the last place

\* ------------------------------------------------- binary64 arithmetic
MantBits == 53
FracBits == 61
LimbBits == 20
NLimbs == 4
Base == 2 ^ LimbBits

Limbs == 1..NLimbs
ZeroMag == [i \in Limbs |-> 0]

\* Propagate carries: limbs of s may exceed Base - 1 on entry.
RECURSIVE Carry(_, _, _)
Carry(s, i, c) ==
    IF i > NLimbs THEN s
    ELSE LET v == s[i] + c
         IN  Carry([s EXCEPT ![i] = v % Base], i + 1, v \div Base)

AddMag(a, b) == Carry([i \in Limbs |-> a[i] + b[i]], 1, 0)

\* a * k for a small natural k
MulSmall(a, k) == Carry([i \in Limbs |-> a[i] * k], 1, 0)

\* <<quotient, remainder>> of a by a small positive d, from the top limb down
RECURSIVE DivSmallFrom(_, _, _, _)
DivSmallFrom(a, d, i, rem) ==
    IF i = 0 THEN <<a, rem>>
    ELSE LET v == rem * Base + a[i]
         IN  DivSmallFrom([a EXCEPT ![i] = v \div d], d, i - 1, v % d)

DivSmall(a, d) == DivSmallFrom(a, d, NLimbs, 0)

\* -1, 0, 1 as a < b, a = b, a > b
RECURSIVE CmpFrom(_, _, _)
CmpFrom(a, b, i) ==
    IF i = 0 THEN 0
    ELSE IF a[i] > b[i] THEN 1
    ELSE IF a[i] < b[i] THEN -1
    ELSE CmpFrom(a, b, i - 1)

CmpMag(a, b) == CmpFrom(a, b, NLimbs)

RECURSIVE BitLenInt(_)
BitLenInt(n) == IF n = 0 THEN 0 ELSE 1 + BitLenInt(n \div 2)

RECURSIVE TopLimb(_, _)
TopLimb(a, i) == IF i = 0 \/ a[i] # 0 THEN i ELSE TopLimb(a, i - 1)

\* number of significant bits of the magnitude a
BitLen(a) ==
    LET t == TopLimb(a, NLimbs)
    IN  IF t = 0 THEN 0 ELSE LimbBits * (t - 1) + BitLenInt(a[t])

\* 2^s units, s < LimbBits * NLimbs
PowMag(s) == [i \in Limbs |-> IF i = (s \div LimbBits) + 1 THEN 2 ^ (s % LimbBits) ELSE 0]

\* Round the exact magnitude a (plus a positive fraction of a unit when
\* sticky) to MantBits significant bits: nearest, ties to even.  The bits
\* dropped lie within the lowest limb for every magnitude below 2^(MantBits
\* + LimbBits - 1) units, which covers every value of the model.
RoundMag(a, sticky) ==
    LET len  == BitLen(a)
        s    == len - MantBits
    IN  IF s <= 0 THEN a
        ELSE LET low   == a[1] % (2 ^ s)
                 half  == 2 ^ (s - 1)
                 odd   == (a[1] \div (2 ^ s)) % 2 = 1
                 trunc == [a EXCEPT ![1] = a[1] - low]
                 up    == \/ low > half
                          \/ low = half /\ (sticky \/ odd)
             IN  IF up THEN AddMag(trunc, PowMag(s)) ELSE trunc

MkFloat(n, m) == [neg |-> n /\ m # ZeroMag, mag |-> m]

Abs(n) == IF n < 0 THEN -n ELSE n

\* The float a decimal literal of h hundredths denotes (float("0.66"), the
\* literals 0.2, 0.01, 0.75, 0.50 of main.py): the binary64 nearest h/100.
FloatOfHundredths(h) ==
    LET qr == DivSmall(MulSmall(PowMag(FracBits), Abs(h)), 100)
    IN  MkFloat(h < 0, RoundMag(qr[1], qr[2] # 0))

\* n * x for a non-negative int n and a non-negative float x: the int is
\* converted exactly, the exact product is rounded once.
MulIntFloat(n, x) == MkFloat(FALSE, RoundMag(MulSmall(x.mag, n), FALSE))

\* x + y for non-negative floats: the exact sum is rounded once.
AddFloat(x, y) == MkFloat(FALSE, RoundMag(AddMag(x.mag, y.mag), FALSE))

\* x > y
FloatGt(x, y) ==
    IF x.neg # y.neg THEN y.neg
    ELSE IF x.neg THEN CmpMag(x.mag, y.mag) < 0
    ELSE CmpMag(x.mag, y.mag) > 0

\* x moved k units in the last place away from zero (for 0: k units of
\* 2^-FracBits): the floats next to a literal.
Nudge(x, k) ==
    LET len == BitLen(x.mag)
        s   == IF len > MantBits THEN len - MantBits ELSE 0
    IN  [neg |-> x.neg, mag |-> AddMag(x.mag, MulSmall(PowMag(s), k))]

\* --------------------------------------------------------- src/main.py
RecommendedAction ==
    [PROACTIVE_RETENTION |-> "Proactive_Retention_Offer",
     MONITOR_ACCOUNT     |-> "Monitor_Account",
     NO_ACTION           |-> "No_Action_Needed"]

ConfidenceLevel == [HIGH |-> "High", MEDIUM |-> "Medium", LOW |-> "Low"]

TicketsKey == "support_tickets_last_30d"
TenureKey == "tenure_months"
DefaultTickets == 0
DefaultTenure == 12
TicketWeight == FloatOfHundredths(20)   \* the literal 0.2
TenureWeight == FloatOfHundredths(1)    \* the literal 0.01

\* JSON values a features dict can hold: an integer, a string, null
IntVal(n) == [kind |-> "int", n |-> n]
StrVal == [kind |-> "str", n |-> 0]
NullVal == [kind |-> "null", n |-> 0]

\* features.get(key, default)
Get(features, key, default) ==
    IF key \in DOMAIN features THEN features[key] ELSE IntVal(default)

\* str(e) of the TypeError that  v * <float>  raises for a non-number v
TypeErrorText(v) ==
    IF v.kind = "str" THEN "can't multiply sequence by non-int of type 'float'"
    ELSE "unsupported operand type(s) for *: 'NoneType' and 'float'"

Return(v) == [ok |-> TRUE, value |-> v, exc |-> ""]
Raise(text) == [ok |-> FALSE, value |-> MkFloat(FALSE, ZeroMag), exc |-> text]

VARIABLES
    CHURN_DECISION_THRESHOLDS, \* the module-level threshold table
    call,        \* the latest direct call of make_churn_decision: <<>> or <<[h, ulps, probability, result]>>
    pc,          \* per request slot: "idle", "awaiting" (suspended at the await), "done"
    payload,     \* per slot: the FeaturePayload of the request, <<>> when idle
    coro,        \* per slot: the arguments bound in the suspended predictor coroutine
    response,    \* per slot: <<DecisionResponse>> once decide returned one
    error,       \* per slot: <<HTTPException>> once decide raised one
    interleaved  \* slots that resumed while another slot was suspended

vars == <<CHURN_DECISION_THRESHOLDS, call, pc, payload, coro, response, error, interleaved>>

Requests == 1..NumReq

\* mutant: the two defaults exchanged
get_churn_prediction_swapped_defaults(customer_id, features) ==
    LET t == Get(features, TicketsKey, DefaultTenure)
        m == Get(features, TenureKey, DefaultTickets)
    IN  IF t.kind # "int" THEN Raise(TypeErrorText(t))
        ELSE IF m.kind # "int" THEN Raise(TypeErrorText(m))
        ELSE Return(AddFloat(MulIntFloat(t.n, TicketWeight), MulIntFloat(m.n, TenureWeight)))

\* The heuristic of the simulated model server.  The left operand of + is
\* evaluated first, so a malformed ticket count raises before tenure is read.
get_churn_prediction_from_model_server(customer_id, features) ==
    LET t == Get(features, TicketsKey, DefaultTickets)
        m == Get(features, TenureKey, DefaultTenure)
    IN  IF t.kind # "int" THEN Raise(TypeErrorText(t))
        ELSE IF m.kind # "int" THEN Raise(TypeErrorText(m))
        ELSE Return(AddFloat(MulIntFloat(t.n, TicketWeight), MulIntFloat(m.n, TenureWeight)))

\* mutant: the medium branch returns the high_risk rule (a pasted line)
make_churn_decision_pasted(probability) ==
    IF FloatGt(probability, CHURN_DECISION_THRESHOLDS["high_risk"].threshold)
    THEN LET rule == CHURN_DECISION_THRESHOLDS["high_risk"]
         IN  <<rule.action, rule.confidence>>
    ELSE IF FloatGt(probability, CHURN_DECISION_THRESHOLDS["medium_risk"].threshold)
    THEN LET rule == CHURN_DECISION_THRESHOLDS["high_risk"]
         IN  <<rule.action, rule.confidence>>
    ELSE <<RecommendedAction.NO_ACTION, ConfidenceLevel.LOW>>

\* mutant: >= in place of >
make_churn_decision_inclusive(probability) ==
    IF ~FloatGt(CHURN_DECISION_THRESHOLDS["high_risk"].threshold, probability)
    THEN LET rule == CHURN_DECISION_THRESHOLDS["high_risk"]
         IN  <<rule.action, rule.confidence>>
    ELSE IF ~FloatGt(CHURN_DECISION_THRESHOLDS["medium_risk"].threshold, probability)
    THEN LET rule == CHURN_DECISION_THRESHOLDS["medium_risk"]
         IN  <<rule.action, rule.confidence>>
    ELSE <<RecommendedAction.NO_ACTION, ConfidenceLevel.LOW>>

\* mutant: probabilities outside [0, 1] are rejected into the lowest band
make_churn_decision_validated(probability) ==
    IF probability.neg \/ FloatGt(probability, FloatOfHundredths(100))
    THEN <<RecommendedAction.NO_ACTION, ConfidenceLevel.LOW>>
    ELSE IF FloatGt(probability, CHURN_DECISION_THRESHOLDS["high_risk"].threshold)
    THEN LET rule == CHURN_DECISION_THRESHOLDS["high_risk"]
         IN  <<rule.action, rule.confidence>>
    ELSE IF FloatGt(probability, CHURN_DECISION_THRESHOLDS["medium_risk"].threshold)
    THEN LET rule == CHURN_DECISION_THRESHOLDS["medium_risk"]
         IN  <<rule.action, rule.confidence>>
    ELSE <<RecommendedAction.NO_ACTION, ConfidenceLevel.LOW>>

\* mutant: the bands are tested lowest first, so the first match is medium
make_churn_decision_ascending(probability) ==
    IF FloatGt(probability, CHURN_DECISION_THRESHOLDS["medium_risk"].threshold)
    THEN LET rule == CHURN_DECISION_THRESHOLDS["medium_risk"]
         IN  <<rule.action, rule.confidence>>
    ELSE IF FloatGt(probability, CHURN_DECISION_THRESHOLDS["high_risk"].threshold)
    THEN LET rule == CHURN_DECISION_THRESHOLDS["high_risk"]
         IN  <<rule.action, rule.confidence>>
    ELSE <<RecommendedAction.NO_ACTION, ConfidenceLevel.LOW>>

make_churn_decision(probability) ==
    IF FloatGt(probability, CHURN_DECISION_THRESHOLDS["high_risk"].threshold)
    THEN LET rule == CHURN_DECISION_THRESHOLDS["high_risk"]
         IN  <<rule.action, rule.confidence>>
    ELSE IF FloatGt(probability, CHURN_DECISION_THRESHOLDS["medium_risk"].threshold)
    THEN LET rule == CHURN_DECISION_THRESHOLDS["medium_risk"]
         IN  <<rule.action, rule.confidence>>
    ELSE <<RecommendedAction.NO_ACTION, ConfidenceLevel.LOW>>

\* mutant: the matched rule is an alias of the table's entry and is written to
make_churn_decision_effect_aliased(probability) ==
    IF FloatGt(probability, CHURN_DECISION_THRESHOLDS["high_risk"].threshold)
    THEN [CHURN_DECISION_THRESHOLDS EXCEPT !["high_risk"].threshold = probability]
    ELSE CHURN_DECISION_THRESHOLDS

\* The threshold table once make_churn_decision(probability) has run: the
\* function only reads it.
make_churn_decision_effect(probability) == CHURN_DECISION_THRESHOLDS

DecisionResponse(customer_id, churn_probability, action, confidence) ==
    [customer_id |-> customer_id, churn_probability |-> churn_probability,
     recommended_action |-> action, confidence_level |-> confidence]

HTTPException(status_code, detail) == [status_code |-> status_code, detail |-> detail]

\* mutant: the arguments are kept in one module-level slot, so a resumed
\* request reads those of whichever request is suspended
coroutine_args_shared(r) == coro[CHOOSE q \in Requests : pc[q] = "awaiting"][1]

\* The arguments the predictor coroutine of request r runs with: the ones
\* decide passed when it created the coroutine.
coroutine_args(r) == coro[r][1]

\* mutant: the except branch answers with a fallback decision
decide_fallback(p, a) ==
    LET res == get_churn_prediction_from_model_server(a.customer_id, a.features)
    IN  IF res.ok
        THEN LET churn_probability == res.value
                 d == make_churn_decision(churn_probability)
             IN  [response |-> <<DecisionResponse(p.customer_id, churn_probability, d[1], d[2])>>,
                  error |-> <<>>]
        ELSE [response |-> <<DecisionResponse(p.customer_id, res.value,
                                              RecommendedAction.NO_ACTION, ConfidenceLevel.LOW)>>,
              error |-> <<>>]

\* decide from the resumption of the await to its return or raise, for the
\* request p whose predictor ran with the arguments a.
decide(p, a) ==
    LET res == get_churn_prediction_from_model_server(a.customer_id, a.features)
    IN  IF res.ok
        THEN LET churn_probability == res.value
                 d == make_churn_decision(churn_probability)
             IN  [response |-> <<DecisionResponse(p.customer_id, churn_probability, d[1], d[2])>>,
                  error |-> <<>>]
        ELSE [response |-> <<>>,
              error |-> <<HTTPException(500, "Internal server error in decision engine: " \o res.exc)>>]

\* ------------------------------------------------------------- inputs
CustomerIds == 1..NumCustomers

\* src/ui.py: the sliders of customer_features_form
MinTenure == 1
MaxTenure == 72
MinTickets == 0
MaxTickets == 10

Absent == [kind |-> "absent", n |-> 0]

\* the features dict holding t under TicketsKey and m under TenureKey, a key
\* being left out when its value is Absent
Features(t, m) ==
    [k \in {x \in {TicketsKey, TenureKey} :
                \/ x = TicketsKey /\ t # Absent
                \/ x = TenureKey /\ m # Absent}
        |-> IF k = TicketsKey THEN t ELSE m]

\* every dict the form can post, and the dicts another client can post with
\* a consulted field left out, a string or null
TicketVals == {Absent, StrVal, NullVal} \cup {IntVal(n) : n \in MinTickets..MaxTickets}
TenureVals == {Absent, StrVal, NullVal} \cup {IntVal(n) : n \in MinTenure..MaxTenure}
UIFeatures == {Features(t, m) : t \in TicketVals, m \in TenureVals}

\* a few dicts with four different outcomes, for the interleavings
ConcFeatures ==
    {Features(Absent, Absent), Features(StrVal, IntVal(6)),
     Features(IntVal(3), IntVal(6)), Features(IntVal(3), IntVal(15))}

\* the float arguments of the direct calls, parsed once
Literals == (0 - HMin)..HMax
LiteralFloat == [h \in Literals |-> [u \in 0..MaxUlps |-> Nudge(FloatOfHundredths(h), u)]]

\* the literals around the bands' edges and the ends of [0, 1]
EdgeLiterals == {-1, 0, 50, 51, 75, 76, 100, 101}

\* ------------------------------------------------------------ actions
Init ==
    /\ CHURN_DECISION_THRESHOLDS =
          [high_risk   |-> [threshold  |-> FloatOfHundredths(75),
                            action     |-> RecommendedAction.PROACTIVE_RETENTION,
                            confidence |-> ConfidenceLevel.HIGH],
           medium_risk |-> [threshold  |-> FloatOfHundredths(50),
                            action     |-> RecommendedAction.MONITOR_ACCOUNT,
                            confidence |-> ConfidenceLevel.MEDIUM]]
    /\ call = <<>>
    /\ pc = [r \in Requests |-> "idle"]
    /\ payload = [r \in Requests |-> <<>>]
    /\ coro = [r \in Requests |-> <<>>]
    /\ response = [r \in Requests |-> <<>>]
    /\ error = [r \in Requests |-> <<>>]
    /\ interleaved = {}

\* a direct call make_churn_decision(p), p the literal h/100 nudged by u ulps
MakeChurnDecisionCall(h, u) ==
    LET p == LiteralFloat[h][u]
    IN  /\ call' = <<[h |-> h, ulps |-> u, probability |-> p,
                      result |-> make_churn_decision(p)]>>
        /\ CHURN_DECISION_THRESHOLDS' = make_churn_decision_effect(p)
        /\ UNCHANGED <<pc, payload, coro, response, error, interleaved>>

\* POST /decide/churn arrives at slot r: decide runs up to the await, the
\* predictor coroutine is created with the payload's fields.
DecideCall(r, cid, f) ==
    /\ pc[r] = "idle"
    /\ pc' = [pc EXCEPT ![r] = "awaiting"]
    /\ payload' = [payload EXCEPT ![r] = <<[customer_id |-> cid, features |-> f]>>]
    /\ coro' = [coro EXCEPT ![r] = <<[customer_id |-> cid, features |-> f]>>]
    /\ UNCHANGED <<CHURN_DECISION_THRESHOLDS, call, response, error, interleaved>>

\* the await of slot r completes and decide runs to its return or raise
DecideResume(r) ==
    /\ pc[r] = "awaiting"
    /\ LET out == decide(payload[r][1], coroutine_args(r))
       IN  /\ response' = [response EXCEPT ![r] = out.response]
           /\ error' = [error EXCEPT ![r] = out.error]
           /\ CHURN_DECISION_THRESHOLDS' =
                 IF out.response # <<>>
                 THEN make_churn_decision_effect(out.response[1].churn_probability)
                 ELSE CHURN_DECISION_THRESHOLDS
    /\ pc' = [pc EXCEPT ![r] = "done"]
    /\ coro' = [coro EXCEPT ![r] = <<>>]
    /\ interleaved' = IF \E q \in Requests \ {r} : pc[q] = "awaiting"
                      THEN interleaved \cup {r} ELSE interleaved
    /\ UNCHANGED <<call, payload>>

\* the framework sends the outcome of slot r to its client; the slot is free
Deliver(r) ==
    /\ pc[r] = "done"
    /\ pc' = [pc EXCEPT ![r] = "idle"]
    /\ payload' = [payload EXCEPT ![r] = <<>>]
    /\ response' = [response EXCEPT ![r] = <<>>]
    /\ error' = [error EXCEPT ![r] = <<>>]
    /\ interleaved' = interleaved \ {r}
    /\ UNCHANGED <<CHURN_DECISION_THRESHOLDS, call, coro>>

\* direct calls of the rule engine
NextClassify == \E h \in Literals, u \in 0..MaxUlps : MakeChurnDecisionCall(h, u)

SpecClassify == Init /\ [][NextClassify]_vars

\* one request at a time, over everything the form and other clients post
Next ==
    \/ \E cid \in CustomerIds, f \in UIFeatures : DecideCall(1, cid, f)
    \/ DecideResume(1)
    \/ Deliver(1)

Spec == Init /\ [][Next]_vars

\* NumReq requests in flight, interleaved at the await
NextConc ==
    \E r \in Requests :
        \/ \E cid \in CustomerIds, f \in ConcFeatures : DecideCall(r, cid, f)
        \/ DecideResume(r)
        \/ Deliver(r)

SpecConc == Init /\ [][NextConc]_vars

\* requests and direct calls of the rule engine in any order
NextFrame ==
    \/ \E h \in EdgeLiterals, u \in 0..MaxUlps : MakeChurnDecisionCall(h, u)
    \/ \E cid \in CustomerIds, f \in ConcFeatures : DecideCall(1, cid, f)
    \/ DecideResume(1)
    \/ Deliver(1)

SpecFrame == Init /\ [][NextFrame]_vars

\* ------------------------------------------------------------- claims
High == <<"Proactive_Retention_Offer", "High">>
Medium == <<"Monitor_Account", "Medium">>
Low == <<"No_Action_Needed", "Low">>

ActionRank(a) ==
    IF a = "Proactive_Retention_Offer" THEN 2 ELSE IF a = "Monitor_Account" THEN 1 ELSE 0
ConfidenceRank(c) == IF c = "High" THEN 2 ELSE IF c = "Medium" THEN 1 ELSE 0

\* The argument of a direct call is the literal h/100 moved ulps units in the
\* last place away from zero, which never reaches the next hundredth; so it
\* exceeds k/100 (k > 0) exactly when:
Exceeds(c, k) == c.h > k \/ (c.h = k /\ c.ulps > 0)

\* the argument (h1, u1) is at most the argument (h2, u2)
ArgLeq(h1, u1, h2, u2) ==
    \/ h1 < h2
    \/ h1 = h2 /\ (IF h1 >= 0 THEN u1 <= u2 ELSE u1 >= u2)

\* C1: every direct call returns the band of the decision table: above 0.75
\* Proactive_Retention_Offer/High, above 0.50 and at most 0.75
\* Monitor_Account/Medium, at most 0.50 No_Action_Needed/Low, and nothing else.
C1_DecisionTable ==
    call # <<>> =>
        LET c == call[1]
        IN  c.result = IF Exceeds(c, 75) THEN High
                       ELSE IF Exceeds(c, 50) THEN Medium
                       ELSE Low

C1_Witness == call # <<>> /\ call[1].h = 80 /\ call[1].ulps = 0 /\ call[1].result = High

\* C2: a probability equal to a threshold of CHURN_DECISION_THRESHOLDS falls
\* into the band below it: 0.75 gives Monitor_Account/Medium and 0.50 gives
\* No_Action_Needed/Low.
C2_BoundaryLowerBand ==
    call # <<>> =>
        LET c == call[1]
        IN  /\ c.h = 75 /\ c.ulps = 0 =>
                 c.probability = CHURN_DECISION_THRESHOLDS["high_risk"].threshold
            /\ c.h = 50 /\ c.ulps = 0 =>
                 c.probability = CHURN_DECISION_THRESHOLDS["medium_risk"].threshold
            /\ c.probability = CHURN_DECISION_THRESHOLDS["high_risk"].threshold =>
                 c.result = Medium
            /\ c.probability = CHURN_DECISION_THRESHOLDS["medium_risk"].threshold =>
                 c.result = Low

C2_Witness == call # <<>> /\ call[1].h = 75 /\ call[1].ulps = 0 /\ call[1].result = Medium

\* C3 as stated: every call returns a pair, and every argument outside
\* [0, 1], negative or above 1, is classified No_Action_Needed/Low.
C3_OutsideUnitIsLow ==
    call # <<>> =>
        LET c == call[1]
        IN  /\ c.result \in {High, Medium, Low}
            /\ (c.h < 0 \/ Exceeds(c, 100)) => c.result = Low

\* C3 amended: every call returns a pair; every negative argument is
\* classified No_Action_Needed/Low and every argument above 1 is classified
\* Proactive_Retention_Offer/High.
C3_OutsideUnitByBand ==
    call # <<>> =>
        LET c == call[1]
        IN  /\ c.result \in {High, Medium, Low}
            /\ c.h < 0 => c.result = Low
            /\ Exceeds(c, 100) => c.result = High

C3_Witness == call # <<>> /\ call[1].h > 100 /\ call[1].result = High

\* C4: the decision is monotone: an argument no greater than another gets an
\* action and a confidence no more severe; and each of the three bands is
\* the decision of some argument.
C4_Monotone ==
    /\ call # <<>> =>
          LET c == call[1]
          IN  \A h \in Literals, u \in 0..MaxUlps :
                  LET d == make_churn_decision(LiteralFloat[h][u])
                  IN  /\ ArgLeq(c.h, c.ulps, h, u) =>
                            /\ ActionRank(c.result[1]) <= ActionRank(d[1])
                            /\ ConfidenceRank(c.result[2]) <= ConfidenceRank(d[2])
                      /\ ArgLeq(h, u, c.h, c.ulps) =>
                            /\ ActionRank(d[1]) <= ActionRank(c.result[1])
                            /\ ConfidenceRank(d[2]) <= ConfidenceRank(c.result[2])
    /\ \A b \in {High, Medium, Low} :
          \E h \in Literals : make_churn_decision(LiteralFloat[h][0]) = b

C4_Witness == call # <<>> /\ call[1].h = 60 /\ call[1].result = Medium

\* 0 <= p <= 1
InUnitInterval(p) == ~p.neg /\ ~FloatGt(p, FloatOfHundredths(100))

\* C5: the churn_probability of every DecisionResponse lies in [0, 1].
C5_ProbabilityInUnitInterval ==
    \A r \in Requests :
        response[r] # <<>> => InUnitInterval(response[r][1].churn_probability)

\* t * 0.2 + m * 0.01 as the interpreter evaluates it
Heuristic(t, m) ==
    AddFloat(MulIntFloat(t, FloatOfHundredths(20)), MulIntFloat(m, FloatOfHundredths(1)))

\* the features hold integers wherever they hold a consulted field
WellFormed(f) == \A k \in DOMAIN f : f[k].kind = "int"

FieldOr(f, k, default) == IF k \in DOMAIN f THEN f[k].n ELSE default

\* C6 as stated: a missing tenure counts as 0 and a missing support-ticket
\* count counts as 12; fields that are present are used as given.
C6_DefaultsAsStated ==
    \A r \in Requests :
        pc[r] = "done" /\ WellFormed(payload[r][1].features) =>
            /\ response[r] # <<>>
            /\ response[r][1].churn_probability =
                  Heuristic(FieldOr(payload[r][1].features, TicketsKey, 12),
                            FieldOr(payload[r][1].features, TenureKey, 0))

\* C6 amended: a missing support-ticket count counts as 0 and a missing
\* tenure counts as 12; fields that are present are used as given.
C6_Defaults ==
    \A r \in Requests :
        pc[r] = "done" /\ WellFormed(payload[r][1].features) =>
            /\ response[r] # <<>>
            /\ response[r][1].churn_probability =
                  Heuristic(FieldOr(payload[r][1].features, TicketsKey, 0),
                            FieldOr(payload[r][1].features, TenureKey, 12))

C6_Witness ==
    /\ pc[1] = "done" /\ response[1] # <<>>
    /\ DOMAIN payload[1][1].features = {TicketsKey}
    /\ payload[1][1].features[TicketsKey].n = 2

\* C7: a request holding integers t and m gets a response with its own
\* customer_id, churn_probability exactly (20 t + m)/100 and the decision of
\* that probability; t = 3, m = 6 gives 0.66 and Monitor_Account/Medium.
C7_ExactHundredths ==
    \A r \in Requests :
        LET f == payload[r][1].features
        IN  pc[r] = "done" /\ DOMAIN f = {TicketsKey, TenureKey} /\ WellFormed(f) =>
                LET t == f[TicketsKey].n
                    m == f[TenureKey].n
                    p == FloatOfHundredths(20 * t + m)
                IN  /\ response[r] # <<>>
                    /\ response[r][1].customer_id = payload[r][1].customer_id
                    /\ response[r][1].churn_probability = p
                    /\ <<response[r][1].recommended_action,
                         response[r][1].confidence_level>> = make_churn_decision(p)
                    /\ t = 3 /\ m = 6 =>
                          <<response[r][1].recommended_action,
                            response[r][1].confidence_level>> = Medium

\* the consulted value whose product raises: the ticket count if malformed,
\* else the tenure
Offending(f) ==
    IF TicketsKey \in DOMAIN f /\ f[TicketsKey].kind # "int" THEN f[TicketsKey]
    ELSE f[TenureKey]

\* C8: a request whose step fails ends in the single error of status 500
\* whose detail embeds the exception's text, with no DecisionResponse; no
\* request has both a response and an error, and a finished one has one.
C8_FailureIsGenericError ==
    \A r \in Requests :
        /\ Len(response[r]) + Len(error[r]) <= 1
        /\ pc[r] = "done" =>
              /\ Len(response[r]) + Len(error[r]) = 1
              /\ ~WellFormed(payload[r][1].features) =>
                    /\ response[r] = <<>>
                    /\ error[r] =
                          <<[status_code |-> 500,
                             detail |->
                                IF Offending(payload[r][1].features).kind = "str"
                                THEN "Internal server error in decision engine: can't multiply sequence by non-int of type 'float'"
                                ELSE "Internal server error in decision engine: unsupported operand type(s) for *: 'NoneType' and 'float'"]>>

C8_Witness ==
    /\ pc[1] = "done" /\ error[1] # <<>> /\ response[1] = <<>>
    /\ TenureKey \in DOMAIN payload[1][1].features
    /\ payload[1][1].features[TenureKey].kind = "null"

\* C9: whatever the interleaving at the await, a finished request has the
\* outcome it has when run alone, with its own customer_id.
C9_RequestsIndependent ==
    \A r \in Requests :
        pc[r] = "done" =>
            /\ [response |-> response[r], error |-> error[r]] =
                  decide(payload[r][1], payload[r][1])
            /\ response[r] # <<>> =>
                  response[r][1].customer_id = payload[r][1].customer_id

C9_Witness ==
    \E r \in interleaved, q \in Requests :
        /\ pc[r] = "done" /\ response[r] # <<>>
        /\ pc[q] = "awaiting"
        /\ payload[q][1].customer_id # payload[r][1].customer_id
        /\ payload[q][1].features # payload[r][1].features

\* C10: in every state the threshold table holds the two bands it had at
\* startup: 0.75 -> Proactive_Retention_Offer/High, 0.50 ->
\* Monitor_Account/Medium.
C10_ThresholdsReadOnly ==
    /\ DOMAIN CHURN_DECISION_THRESHOLDS = {"high_risk", "medium_risk"}
    /\ CHURN_DECISION_THRESHOLDS["high_risk"] =
          [threshold |-> FloatOfHundredths(75), action |-> High[1], confidence |-> High[2]]
    /\ CHURN_DECISION_THRESHOLDS["medium_risk"] =
          [threshold |-> FloatOfHundredths(50), action |-> Medium[1], confidence |-> Medium[2]]

C10_Witness ==
    /\ call # <<>> /\ call[1].result = High
    /\ pc[1] = "done" /\ response[1] # <<>>
    /\ response[1][1].recommended_action = "Proactive_Retention_Offer"
====
